---- MODULE Spec2Model ----
(***************************************************************************)
(* Ingest of a CSV export into the Postgres table "records"                *)
(* (scripts/ingest_csv.py) and the read request of the query API           *)
(* (app/search.py), as a state machine over the database tables.           *)
(*                                                                         *)
(* Every cell value is a string.  Null is the database NULL / pandas NA.   *)
(* A table is a record [cols, rows]; cols is the ordered list of           *)
(* [name, type] pairs (empty when the table does not exist), rows the      *)
(* list of its rows, each a function from column name to value.            *)
(***************************************************************************)
EXTENDS Integers, Sequences, FiniteSets, TLC

Null == "<NA>"

\* ---------------------------------------------------------------- bounds
\* Number of ingest processes that may run against the same database.
NumRuns == 2
\* Largest number of data rows of an input file.
MaxRows == 2
\* Number of distinct pmid values that appear in input files.
MaxPmid == 2

\* ------------------------------------------------------------- utilities
Range(s) == {s[i] : i \in 1..Len(s)}

Names(cs) == [i \in 1..Len(cs) |-> cs[i].name]

NameSet(cs) == {cs[i].name : i \in 1..Len(cs)}

TypeOf(cs, c) == (CHOOSE x \in Range(cs) : x.name = c).type

SeqsUpTo(S, n) == UNION {[1..k -> S] : k \in 0..n}

RECURSIVE FilterSeq(_, _)
FilterSeq(s, keep) ==
  IF s = <<>> THEN <<>>
  ELSE IF keep[1] THEN <<Head(s)>> \o FilterSeq(Tail(s), Tail(keep))
       ELSE FilterSeq(Tail(s), Tail(keep))

Col(n, t) == [name |-> n, type |-> t]

\* ------------------------------------------------------- database schemas
\* scripts/migrate.py: the table as the migration creates it.
DDL ==
  << Col("pmid", "bigint"), Col("title", "text"), Col("abstract", "text"),
     Col("journal", "text"), Col("year", "double precision"),
     Col("_hit_kw", "text"), Col("demo_present", "double precision"),
     Col("outcome_present", "double precision"),
     Col("is_1", "double precision"), Col("decade", "double precision"),
     Col("pub_year_final", "double precision"),
     Col("is_paywalled", "double precision"),
     Col("years_since_pub", "double precision"),
     Col("is_pharma", "integer") >>

\* The table the query API reads (app/db.py fetch_paper, app/search.py):
\* the canonical record of the data model, with the search vector fts.
AppSchema ==
  << Col("pmid", "bigint"), Col("doi", "text"), Col("title", "text"),
     Col("abstract", "text"), Col("journal", "text"),
     Col("year", "integer"), Col("decade", "integer"),
     Col("domain", "text"), Col("medication_class", "text"),
     Col("is_replication", "boolean"), Col("replication_outcome", "text"),
     Col("has_demo", "boolean"), Col("has_outcome", "boolean"),
     Col("compliance_category", "text"), Col("effect_size", "real"),
     Col("oa_status", "text"), Col("oa_url", "text"),
     Col("fts", "tsvector") >>

\* A table named records that lacks the identity column: the case the
\* check "'pmid' must exist in CSV and DB" of main is written for.
NoPmidSchema == << Col("title", "text"), Col("abstract", "text") >>

NoTable == << >>

\* ------------------------------------------------------------ input files
Digits == << "1", "2", "3", "4", "5" >>

PmidTokens == {Digits[n] : n \in 1..MaxPmid}

\* "1.0" is a second spelling of pmid 1; "x" is not a number; "" is empty.
PmidCells == PmidTokens \cup {"1.0", "x", ""}

DoiCells == {"", "d"}

TitleA == "A"

TitleB == "B improved outcome"

\* The title of generated files; the empty title and TitleB appear in the
\* files of Files.
TitleCells == {TitleA}

AbstractCells == {""}

CellsOf(c) ==
  CASE c = "pmid" -> PmidCells
    [] c = "doi" -> DoiCells
    [] c = "title" -> TitleCells
    [] c = "abstract" -> AbstractCells
    [] OTHER -> {""}

HdrFull == << "pmid", "doi", "title", "abstract" >>

HdrNoPmid == << "doi", "title", "abstract" >>

HdrNoText == << "pmid", "doi" >>

Headers == {HdrFull, HdrNoPmid, HdrNoText}

\* The rows over header h: one cell of CellsOf(c) in every column c.
RECURSIVE RawRows(_)
RawRows(h) ==
  IF h = << >> THEN {<< >>}
  ELSE LET c == h[Len(h)]
       IN {[x \in DOMAIN r \cup {c} |-> IF x = c THEN v ELSE r[x]] :
             r \in RawRows(SubSeq(h, 1, Len(h) - 1)), v \in CellsOf(c)}

Csv(h, rs) == [hdr |-> h, rows |-> rs]

\* Every input file within the bounds.
Inputs == UNION {{Csv(h, rs) : rs \in SeqsUpTo(RawRows(h), MaxRows)} : h \in Headers}

\* ------------------------------------------------------ reading the file
\* pd.read_csv: the default NA spellings of a cell are read as NA.
NaTokens == {"", "NA", "N/A", "NULL", "NaN", "nan", "null", "None", "n/a", "<NA>", "#N/A"}

read_cell(s) == IF s \in NaTokens THEN Null ELSE s

\* The data frame: ordered column names, rows, and the columns of dtype bool.
read_csv(in) ==
  [cols  |-> in.hdr,
   rows  |-> [i \in 1..Len(in.rows) |->
                [c \in Range(in.hdr) |-> read_cell(in.rows[i][c])]],
   bools |-> {}]

\* pd.to_numeric(errors="coerce"): the number a cell spells, in the spelling
\* an integer column prints it with; NA when the cell spells no number.
to_numeric(s) ==
  CASE s \in Range(Digits) -> s
    [] s = "0" -> "0"
    [] s = "0.0" -> "0"
    [] \E n \in 1..Len(Digits) : s = Digits[n] \o ".0" ->
         Digits[CHOOSE n \in 1..Len(Digits) : s = Digits[n] \o ".0"]
    [] OTHER -> Null

\* pd.to_numeric(x, errors="coerce").fillna(0) > 0
positive(s) == to_numeric(s) \notin {Null, "0"}

Bool(b) == IF b THEN "True" ELSE "False"

\* What a text contains: the keywords of the derivation rules that occur in
\* it as substrings, and the words a \b...\b pattern can match.
Substrings(s) ==
  CASE s = TitleB -> {"improved"}
    [] OTHER -> {}

Words(s) ==
  CASE s = TitleB -> {"b", "improved", "outcome"}
    [] OTHER -> {}

Has(ks, list) == ks \cap list # {}

infer_study_type(title, abstract) ==
  LET s == Substrings(title) \cup Substrings(abstract) IN
  IF Has(s, {"meta-analysis", "systematic review"}) THEN "meta-analysis"
  ELSE IF Has(s, {"randomized", "randomised", " rct "}) THEN "rct"
  ELSE IF Has(s, {"replication", "reproduc"}) THEN "replication"
  ELSE IF Has(s, {"case report"}) THEN "case-report"
  ELSE IF Has(s, {"cross-sectional"}) THEN "observational"
  ELSE IF Has(s, {"cohort", "prospective", "retrospective"}) THEN "observational"
  ELSE IF Has(s, {"pilot", "feasibility"}) THEN "pilot"
  ELSE IF Has(s, {"review"}) THEN "review"
  ELSE "other"

infer_outcome_sign(s) ==
  LET pos == Has(s, {"significant improvement", "improved", "improvement",
                     "reduction in symptoms", "reduced symptoms", "benefit",
                     "effective", "efficacious"})
      neg == Has(s, {"no significant difference", "no difference",
                     "ns difference", "worsened", "worsening",
                     "increased symptoms", "adverse", "ineffective",
                     "not effective"})
  IN IF pos /\ ~neg THEN "positive"
     ELSE IF neg /\ ~pos THEN "negative"
     ELSE IF Has(s, {"no significant", "no difference", "ns "}) THEN "neutral"
     ELSE "unclear"

\* df[name] = values: a new column is appended, an existing one replaced.
SetCol(df, name, val(_), isBool) ==
  [cols  |-> IF name \in Range(df.cols) THEN df.cols ELSE Append(df.cols, name),
   rows  |-> [i \in 1..Len(df.rows) |->
                [c \in Range(df.cols) \cup {name} |->
                   IF c = name THEN val(df.rows[i]) ELSE df.rows[i][c]]],
   bools |-> IF isBool THEN df.bools \cup {name} ELSE df.bools \ {name}]

HasCol(df, c) == c \in Range(df.cols)

\* The derivations read title and abstract with df.get(...), which is None
\* for a missing column: zip(...) and .fillna then raise.
NeedsText(df) ==
  \/ ~HasCol(df, "study_type")
  \/ ~HasCol(df, "is_compliant") /\ ~({"demo_present", "outcome_present"} \subseteq Range(df.cols))
  \/ ~HasCol(df, "outcome_present")
  \/ ~HasCol(df, "outcome_sign")

DeriveRaises(df) == NeedsText(df) /\ ~({"title", "abstract"} \subseteq Range(df.cols))

TextSub(r) == Substrings(r["title"]) \cup Substrings(r["abstract"])

TextWords(r) == Words(r["title"]) \cup Words(r["abstract"])

derive_study_type(df) ==
  IF HasCol(df, "study_type") THEN df
  ELSE LET v(r) == infer_study_type(r["title"], r["abstract"])
       IN SetCol(df, "study_type", v, FALSE)

derive_is_compliant(df) ==
  IF HasCol(df, "is_compliant") THEN df
  ELSE IF {"demo_present", "outcome_present"} \subseteq Range(df.cols)
  THEN LET v(r) == Bool(positive(r["demo_present"]) /\ positive(r["outcome_present"]))
       IN SetCol(df, "is_compliant", v, TRUE)
  ELSE LET v(r) == Bool(/\ Has(TextWords(r), {"sex", "gender", "male", "female",
                                              "race", "ethnic", "ethnicity"})
                        /\ Has(TextWords(r), {"outcome", "effect", "response", "score",
                                              "change", "improvement", "adverse"}))
       IN SetCol(df, "is_compliant", v, TRUE)

derive_outcome_positive_is_1(df) ==
  IF HasCol(df, "is_1") /\ ~HasCol(df, "outcome_positive")
  THEN LET v(r) == Bool(positive(r["is_1"]))
       IN SetCol(df, "outcome_positive", v, TRUE)
  ELSE df

derive_outcome_present(df) ==
  IF HasCol(df, "outcome_present")
  THEN LET v(r) == Bool(positive(r["outcome_present"]))
       IN SetCol(df, "outcome_present", v, TRUE)
  ELSE LET v(r) == Bool(Has(TextWords(r), {"outcome", "effect", "response", "score",
                                           "change", "difference", "improv",
                                           "worsen", "adverse"}))
       IN SetCol(df, "outcome_present", v, TRUE)

derive_outcome_sign(df) ==
  IF HasCol(df, "outcome_sign") THEN df
  ELSE LET v(r) == infer_outcome_sign(TextSub(r))
       IN SetCol(df, "outcome_sign", v, FALSE)

derive_outcome_positive(df) ==
  IF ~HasCol(df, "outcome_positive") /\ HasCol(df, "outcome_sign")
  THEN LET v(r) == CASE r["outcome_sign"] = "positive" -> "True"
                     [] r["outcome_sign"] = "negative" -> "False"
                     [] OTHER -> Null
       IN SetCol(df, "outcome_positive", v, FALSE)
  ELSE df

\* main, lines 77-113.
derive(df) ==
  derive_outcome_positive(derive_outcome_sign(derive_outcome_present(
    derive_outcome_positive_is_1(derive_is_compliant(derive_study_type(df))))))

\* clean_pmid keeping a row without pmid when it has a doi.
clean_pmid_or_doi(df) ==
  LET num  == [i \in 1..Len(df.rows) |-> to_numeric(df.rows[i]["pmid"])]
      keep == [i \in 1..Len(df.rows) |->
                 num[i] # Null \/ (HasCol(df, "doi") /\ df.rows[i]["doi"] # Null)]
      rows == [i \in 1..Len(df.rows) |-> [df.rows[i] EXCEPT !["pmid"] = num[i]]]
  IN [df EXCEPT !.rows = FilterSeq(rows, keep)]

\* main, lines 118-122: pmid to a number, rows without one dropped.
clean_pmid(df) ==
  LET num  == [i \in 1..Len(df.rows) |-> to_numeric(df.rows[i]["pmid"])]
      keep == [i \in 1..Len(df.rows) |-> num[i] # Null]
      rows == [i \in 1..Len(df.rows) |-> [df.rows[i] EXCEPT !["pmid"] = num[i]]]
  IN [df EXCEPT !.rows = FilterSeq(rows, keep)]

\* ------------------------------------------------------------ type coercion
BOOL_TRUE == {"1", "true", "t", "y", "yes", "on", "True", "TRUE"}

BOOL_FALSE == {"0", "false", "f", "n", "no", "off", "False", "FALSE"}

\* Cells of the model carry no surrounding blanks, so strip() changes none.
to_bool(x) ==
  IF x = Null THEN Null
  ELSE IF x = "" THEN Null
  ELSE IF x \in BOOL_TRUE THEN "True"
  ELSE IF x \in BOOL_FALSE THEN "False"
  ELSE IF to_numeric(x) = Null THEN Null
  ELSE Bool(to_numeric(x) # "0")

IntTypes == {"smallint", "integer", "bigint"}

FloatTypes == {"double precision", "real", "numeric", "decimal"}

\* main, lines 152-161: one cell of column dtype isBool coerced for type t.
coerce_cell(t, isBool, v) ==
  IF t \in IntTypes
  THEN IF isBool THEN (IF v = "True" THEN "1" ELSE "0") ELSE to_numeric(v)
  ELSE IF t \in FloatTypes
  THEN IF isBool THEN v ELSE to_numeric(v)
  ELSE IF t = "boolean"
  THEN IF isBool THEN v ELSE to_bool(v)
  ELSE v

coerce(df, cols, db_types) ==
  [df EXCEPT !.rows =
     [i \in 1..Len(df.rows) |->
        [c \in DOMAIN df.rows[i] |->
           IF c \in Range(cols)
           THEN coerce_cell(db_types[c], c \in df.bools, df.rows[i][c])
           ELSE df.rows[i][c]]]]

\* df[cols].to_csv: NA prints as the empty cell.
to_csv_cell(v) == IF v = Null THEN "" ELSE v

to_csv(df, cols) ==
  [i \in 1..Len(df.rows) |-> [c \in Range(cols) |-> to_csv_cell(df.rows[i][c])]]

\* ------------------------------------------------------------- the database
\* What COPY ... WITH CSV NULL '' accepts for a column of type t.
PgBoolTrue == {"true", "True", "TRUE", "t", "T", "yes", "y", "on", "1"}

PgBoolFalse == {"false", "False", "FALSE", "f", "F", "no", "n", "off", "0"}

IntegerText(s) == s = "0" \/ s \in Range(Digits)

copy_accepts(t, s) ==
  \/ s = ""
  \/ t \in IntTypes /\ IntegerText(s)
  \/ t \in FloatTypes /\ to_numeric(s) # Null
  \/ t = "boolean" /\ s \in PgBoolTrue \cup PgBoolFalse
  \/ t \notin IntTypes \cup FloatTypes \cup {"boolean"}

copy_value(t, s) ==
  IF s = "" THEN Null
  ELSE IF t \in IntTypes \cup FloatTypes THEN to_numeric(s)
  ELSE IF t = "boolean" THEN Bool(s \in PgBoolTrue)
  ELSE s

Exists(t) == t.cols # << >>

NullRow(cs) == [c \in NameSet(cs) |-> Null]

MinColumns ==
  << Col("study_type", "text"), Col("is_compliant", "boolean"),
     Col("outcome_present", "boolean"), Col("outcome_positive", "boolean"),
     Col("outcome_sign", "text") >>

\* ALTER TABLE records ADD COLUMN IF NOT EXISTS ...: the table with the
\* missing columns appended, NULL in every existing row.
ensure_min_columns(t) ==
  LET add  == SelectSeq(MinColumns, LAMBDA c : c.name \notin NameSet(t.cols))
      cs   == t.cols \o add
  IN [cols |-> cs,
      rows |-> [i \in 1..Len(t.rows) |->
                  [c \in NameSet(cs) |->
                     IF c \in DOMAIN t.rows[i] THEN t.rows[i][c] ELSE Null]]]

\* plan in the order of the frame's columns.
plan_frame_order(db_cols, df) == SelectSeq(df.cols, LAMBDA c : c \in Range(db_cols))

\* main, line 145: the columns of the table that the frame has, in table order.
plan(db_cols, df) == SelectSeq(db_cols, LAMBDA c : c \in Range(df.cols))

\* DROP TABLE IF EXISTS records_stage; CREATE UNLOGGED TABLE records_stage
\* AS SELECT cols FROM records WHERE false; TRUNCATE TABLE records_stage.
StageNone == [cols |-> << >>, rows |-> << >>]

create_stage(t, cols) ==
  [cols |-> SelectSeq(t.cols, LAMBDA c : c.name \in Range(cols)), rows |-> << >>]

create_stage_ok(t, cols) == Exists(t) /\ Range(cols) \subseteq NameSet(t.cols)

\* COPY records_stage (cols) FROM STDIN: every row is appended, or none.
copy_ok(st, cols, csv) ==
  /\ Exists(st)
  /\ Range(cols) \subseteq NameSet(st.cols)
  /\ \A i \in 1..Len(csv) : \A c \in Range(cols) :
       copy_accepts(TypeOf(st.cols, c), csv[i][c])

copy_expert(st, cols, csv) ==
  [st EXCEPT !.rows = st.rows \o
     [i \in 1..Len(csv) |->
        [c \in NameSet(st.cols) |->
           IF c \in Range(cols) THEN copy_value(TypeOf(st.cols, c), csv[i][c])
           ELSE Null]]]

\* pmid is the primary key of records (migrate.py) when the column exists.
HasPrimaryKey(t) == "pmid" \in NameSet(t.cols)

\* upsert_ok without the rule that one command cannot affect a row twice.
upsert_ok_twice(t, st, cols) ==
  /\ Exists(t) /\ Exists(st)
  /\ Range(cols) \subseteq NameSet(t.cols)
  /\ Range(cols) \subseteq NameSet(st.cols)
  /\ \A i \in 1..Len(st.rows) : st.rows[i]["pmid"] # Null

\* INSERT INTO records (cols) SELECT cols FROM records_stage
\* ON CONFLICT (pmid) DO UPDATE SET c = EXCLUDED.c for every c of cols but pmid.
\* The statement raises when a table or column is missing, when the SET list
\* is empty, when a staged pmid is NULL, and when two staged rows have the
\* same pmid (the command cannot affect a row a second time).
upsert_ok(t, st, cols) ==
  /\ Exists(t) /\ Exists(st)
  /\ HasPrimaryKey(t)
  /\ Range(cols) \subseteq NameSet(t.cols)
  /\ Range(cols) \subseteq NameSet(st.cols)
  /\ Range(cols) # {"pmid"}
  /\ \A i \in 1..Len(st.rows) : st.rows[i]["pmid"] # Null
  /\ \A i, j \in 1..Len(st.rows) : i # j => st.rows[i]["pmid"] # st.rows[j]["pmid"]

Merged(t, old, s, cols) ==
  [c \in NameSet(t.cols) |-> IF c \in Range(cols) THEN s[c] ELSE old[c]]

\* to_tsvector('english', coalesce(title,'') || ' ' || coalesce(abstract,''))
\* on the texts of the model: lexemes with positions, stop words left out.
to_tsvector(title, abstract) ==
  CASE title = TitleB -> "'b':1 'improv':2 'outcom':3"
    [] OTHER -> ""

\* upsert as a plain INSERT: every staged row is appended.
upsert_append(t, st, cols) ==
  [t EXCEPT !.rows =
     t.rows \o [i \in 1..Len(st.rows) |-> Merged(t, NullRow(t.cols), st.rows[i], cols)]]

\* upsert as a sparse patch: a staged NULL keeps the value of the row.
upsert_sparse(t, st, cols) ==
  LET staged == Range(st.rows)
      hit(r) == \E s \in staged : s["pmid"] = r["pmid"]
      src(r) == CHOOSE s \in staged : s["pmid"] = r["pmid"]
      patch(r) == [c \in NameSet(t.cols) |->
                     IF c \in Range(cols) /\ src(r)[c] # Null THEN src(r)[c] ELSE r[c]]
      fresh  == [i \in 1..Len(st.rows) |->
                   \A r \in Range(t.rows) : r["pmid"] # st.rows[i]["pmid"]]
      new    == FilterSeq(st.rows, fresh)
  IN [t EXCEPT !.rows =
        [i \in 1..Len(t.rows) |-> IF hit(t.rows[i]) THEN patch(t.rows[i]) ELSE t.rows[i]]
        \o [i \in 1..Len(new) |-> Merged(t, NullRow(t.cols), new[i], cols)]]

\* upsert replacing the whole row of a staged pmid: columns outside the
\* plan become NULL.
upsert_replace(t, st, cols) ==
  LET staged == Range(st.rows)
      hit(r) == \E s \in staged : s["pmid"] = r["pmid"]
      src(r) == CHOOSE s \in staged : s["pmid"] = r["pmid"]
      fresh  == [i \in 1..Len(st.rows) |->
                   \A r \in Range(t.rows) : r["pmid"] # st.rows[i]["pmid"]]
      new    == FilterSeq(st.rows, fresh)
  IN [t EXCEPT !.rows =
        [i \in 1..Len(t.rows) |->
           IF hit(t.rows[i]) THEN Merged(t, NullRow(t.cols), src(t.rows[i]), cols)
           ELSE t.rows[i]]
        \o [i \in 1..Len(new) |-> Merged(t, NullRow(t.cols), new[i], cols)]]

upsert(t, st, cols) ==
  LET staged == Range(st.rows)
      hit(r) == \E s \in staged : s["pmid"] = r["pmid"]
      src(r) == CHOOSE s \in staged : s["pmid"] = r["pmid"]
      fresh  == [i \in 1..Len(st.rows) |->
                   \A r \in Range(t.rows) : r["pmid"] # st.rows[i]["pmid"]]
      new    == FilterSeq(st.rows, fresh)
  IN [t EXCEPT !.rows =
        [i \in 1..Len(t.rows) |->
           IF hit(t.rows[i]) THEN Merged(t, t.rows[i], src(t.rows[i]), cols)
           ELSE t.rows[i]]
        \o [i \in 1..Len(new) |-> Merged(t, NullRow(t.cols), new[i], cols)]]

\* ------------------------------------------------------------------ state
VARIABLES
  records,        \* the destination table: [cols, rows]
  records_stage,  \* the staging table: [cols, rows]
  pc,             \* per run: the step it is about to take, or how it ended
  at,             \* per run: the step at which it ended ("" while running)
  fault,          \* per run: it ended by a lost connection
  input,          \* per run: the file it was started on
  df,             \* per run: the data frame
  cols,           \* per run: the column plan
  before,         \* per run: rows read
  dropped,        \* per run: rows dropped for a missing or invalid pmid
  snap,           \* per run: records as it was when the run started
  alone,          \* per run: no other run has been active during this one
  writes,         \* per run: write statements (DDL, DML) it has executed
  repeat,         \* per run: it repeats the input of the run just before it
  last,           \* the run that ended most recently (0: none)
  seen            \* the read request: the table each executed query read

vars == << records, records_stage, pc, at, fault, input, df, cols, before,
           dropped, snap, alone, writes, repeat, last, seen >>

runvars == << pc, at, fault, input, df, cols, before, dropped, snap, alone,
              writes, repeat, last >>

Runs == 1..NumRuns

Steps == {"ensure", "introspect", "stage", "copy", "merge"}

Ended == {"done", "exit", "raised"}

NoFile == Csv(<< >>, << >>)

NoFrame == [cols |-> << >>, rows |-> << >>, bools |-> {}]

NoTableT == [cols |-> NoTable, rows |-> << >>]

Active(r) == pc[r] \in Steps

\* The files the concurrent runs are started on.
Row(p, d, t) == [c \in Range(HdrFull) |->
                   CASE c = "pmid" -> p [] c = "doi" -> d [] c = "title" -> t [] OTHER -> ""]

FileA == Csv(HdrFull, << Row("1", "d", TitleA) >>)

FileB == Csv(HdrFull, << Row("1.0", "", TitleB), Row("2", "", "") >>)

FileDup == Csv(HdrFull, << Row("2", "", TitleA), Row("2", "d", TitleB) >>)

FileNoPmid == Csv(HdrNoPmid, << [c \in Range(HdrNoPmid) |-> ""] >>)

Files == {FileA, FileB, FileDup, FileNoPmid}

Schemas == {NoTable, DDL, AppSchema, NoPmidSchema}

\* Files with boolean columns and a column the table does not have.
HdrBool == << "pmid", "title", "abstract", "is_compliant", "outcome_present",
             "outcome_positive", "note" >>

\* Spellings of a boolean cell: the listed tokens in several cases, numbers,
\* the empty cell and a word that is no boolean.
BoolCells == {"", "1", "0", "true", "TRUE", "yes", "Yes", "no", "NO", "t", "F",
              "on", "Off", "1.0", "0.0", "2", "maybe"}

PresentCells == {"", "1", "0"}

BoolRow(b, p) ==
  [c \in Range(HdrBool) |->
     CASE c = "pmid" -> "1"
       [] c = "title" -> TitleA
       [] c = "abstract" -> ""
       [] c = "outcome_present" -> p
       [] c = "note" -> "n"
       [] OTHER -> b]

BoolFiles ==
  {Csv(HdrBool, << BoolRow(b, p) >>) : b \in BoolCells, p \in PresentCells}
    \cup {FileNoPmid}

InitRuns ==
  /\ pc = [r \in Runs |-> "idle"]
  /\ at = [r \in Runs |-> ""]
  /\ fault = [r \in Runs |-> FALSE]
  /\ input = [r \in Runs |-> NoFile]
  /\ df = [r \in Runs |-> NoFrame]
  /\ cols = [r \in Runs |-> << >>]
  /\ before = [r \in Runs |-> 0]
  /\ dropped = [r \in Runs |-> 0]
  /\ snap = [r \in Runs |-> NoTableT]
  /\ alone = [r \in Runs |-> TRUE]
  /\ writes = [r \in Runs |-> 0]
  /\ repeat = [r \in Runs |-> FALSE]
  /\ last = 0

Init ==
  /\ \E s \in Schemas : records = [cols |-> s, rows |-> << >>]
  /\ records_stage = StageNone
  /\ InitRuns
  /\ seen = << >>

\* A run ends at its current step.
End(r, how, lost) ==
  /\ at' = [at EXCEPT ![r] = IF pc[r] = "idle" THEN "start" ELSE pc[r]]
  /\ pc' = [pc EXCEPT ![r] = how]
  /\ fault' = [fault EXCEPT ![r] = lost]
  /\ last' = r

Goto(r, step) ==
  /\ pc' = [pc EXCEPT ![r] = step]
  /\ UNCHANGED << at, fault, last >>

\* main, lines 75-123: read the file, derive the columns, clean pmid.
Start(r, in) ==
  /\ pc[r] = "idle"
  /\ \A q \in Runs : q < r => pc[q] # "idle"
  /\ LET raw == read_csv(in)
         d   == IF DeriveRaises(raw) THEN raw ELSE derive(raw)
         k   == IF HasCol(d, "pmid") THEN clean_pmid(d) ELSE d
     IN /\ input' = [input EXCEPT ![r] = in]
        /\ df' = [df EXCEPT ![r] = k]
        /\ before' = [before EXCEPT ![r] = Len(d.rows)]
        /\ dropped' = [dropped EXCEPT ![r] = Len(d.rows) - Len(k.rows)]
        /\ IF DeriveRaises(raw) THEN End(r, "raised", FALSE)
           ELSE IF ~HasCol(d, "pmid") THEN End(r, "exit", FALSE)
           ELSE Goto(r, "ensure")
  /\ snap' = [snap EXCEPT ![r] = records]
  /\ alone' = [q \in Runs |-> IF q = r THEN \A o \in Runs \ {r} : ~Active(o)
                              ELSE IF Active(q) THEN FALSE ELSE alone[q]]
  /\ repeat' = [repeat EXCEPT ![r] =
                  /\ last # 0
                  /\ \A o \in Runs \ {r} : ~Active(o)
                  /\ input[last] = in /\ alone[last] /\ ~fault[last]]
  /\ UNCHANGED << records, records_stage, cols, writes, seen >>

\* main, line 128: ensure_min_columns, one transaction.
Ensure(r) ==
  /\ pc[r] = "ensure"
  /\ IF Exists(records)
     THEN /\ records' = ensure_min_columns(records)
          /\ writes' = [writes EXCEPT ![r] = @ + 1]
          /\ Goto(r, "introspect")
     ELSE /\ End(r, "raised", FALSE)
          /\ UNCHANGED << records, writes >>
  /\ UNCHANGED << records_stage, input, df, cols, before, dropped, snap,
                  alone, repeat, seen >>

\* main, lines 131-161: read the catalog, plan the columns, coerce the frame.
Introspect(r) ==
  /\ pc[r] = "introspect"
  /\ LET db_cols  == Names(records.cols)
         db_types == [c \in NameSet(records.cols) |-> TypeOf(records.cols, c)]
         p        == plan(db_cols, df[r])
     IN IF db_cols = << >> \/ "pmid" \notin Range(p) \/ p = << >>
        THEN /\ End(r, "exit", FALSE)
             /\ UNCHANGED << cols, df >>
        ELSE /\ cols' = [cols EXCEPT ![r] = p]
             /\ df' = [df EXCEPT ![r] = coerce(df[r], p, db_types)]
             /\ Goto(r, "stage")
  /\ UNCHANGED << records, records_stage, input, before, dropped, snap,
                  alone, writes, repeat, seen >>

\* main, lines 164-168: the staging table is dropped and created anew.
Stage(r) ==
  /\ pc[r] = "stage"
  /\ IF create_stage_ok(records, cols[r])
     THEN /\ records_stage' = create_stage(records, cols[r])
          /\ writes' = [writes EXCEPT ![r] = @ + 1]
          /\ Goto(r, "copy")
     ELSE /\ End(r, "raised", FALSE)
          /\ UNCHANGED << records_stage, writes >>
  /\ UNCHANGED << records, input, df, cols, before, dropped, snap, alone,
                  repeat, seen >>

\* main, lines 171-181: COPY of the frame into the staging table.
Copy(r) ==
  /\ pc[r] = "copy"
  /\ LET csv == to_csv(df[r], cols[r])
     IN IF copy_ok(records_stage, cols[r], csv)
        THEN /\ records_stage' = copy_expert(records_stage, cols[r], csv)
             /\ writes' = [writes EXCEPT ![r] = @ + 1]
             /\ Goto(r, "merge")
        ELSE /\ End(r, "raised", FALSE)
             /\ UNCHANGED << records_stage, writes >>
  /\ UNCHANGED << records, input, df, cols, before, dropped, snap, alone,
                  repeat, seen >>

\* Merge without the transaction: a failing statement keeps the rows it
\* has already written.
Merge_no_rollback(r) ==
  /\ pc[r] = "merge"
  /\ IF upsert_ok(records, records_stage, cols[r])
     THEN /\ records' = upsert(records, records_stage, cols[r])
          /\ writes' = [writes EXCEPT ![r] = @ + 1]
          /\ End(r, "done", FALSE)
     ELSE /\ End(r, "raised", FALSE)
          /\ records' = IF Exists(records_stage) /\ Len(records_stage.rows) > 0
                           /\ Range(cols[r]) \subseteq NameSet(records_stage.cols)
                        THEN upsert(records,
                                    [records_stage EXCEPT !.rows = << Head(@) >>],
                                    cols[r])
                        ELSE records
          /\ UNCHANGED writes
  /\ UNCHANGED << records_stage, input, df, cols, before, dropped, snap,
                  alone, repeat, seen >>

\* main, lines 184-193: the upsert, one statement in one transaction.
Merge(r) ==
  /\ pc[r] = "merge"
  /\ IF upsert_ok(records, records_stage, cols[r])
     THEN /\ records' = upsert(records, records_stage, cols[r])
          /\ writes' = [writes EXCEPT ![r] = @ + 1]
          /\ End(r, "done", FALSE)
     ELSE /\ End(r, "raised", FALSE)
          /\ UNCHANGED << records, writes >>
  /\ UNCHANGED << records_stage, input, df, cols, before, dropped, snap,
                  alone, repeat, seen >>

\* The connection is lost while the run recreates the staging table, loads
\* it or merges it: the open transaction is rolled back and the run ends
\* with the exception.  (Before the staging step a lost connection leaves
\* the same tables as one lost in it.)
Lost(r) ==
  /\ pc[r] \in {"stage", "copy", "merge"}
  /\ End(r, "raised", TRUE)
  /\ UNCHANGED << records, records_stage, input, df, cols, before, dropped,
                  snap, alone, writes, repeat, seen >>

\* app/search.py fts_search: four statements in one READ COMMITTED
\* transaction; each statement reads the table as committed when it starts.
NumQueries == 4

QueryCols == {"fts", "year", "domain", "compliance_category", "replication_outcome"}

Query ==
  /\ Len(seen) < NumQueries
  /\ QueryCols \subseteq NameSet(records.cols)
  /\ seen' = Append(seen, records)
  /\ UNCHANGED << records, records_stage >>
  /\ UNCHANGED runvars

Step(r) == Ensure(r) \/ Introspect(r) \/ Stage(r) \/ Copy(r) \/ Merge(r) \/ Lost(r)

Next ==
  \/ \E r \in Runs : \E in \in Files : Start(r, in)
  \/ \E r \in Runs : Step(r)

Spec == Init /\ [][Next]_vars

\* One run, started on any input file within the bounds.
NextOne ==
  \/ \E in \in Inputs : Start(1, in)
  \/ Step(1)

SpecOne == Init /\ [][NextOne]_vars

\* One run and one read request of the query API.
\* A file with a doi in every row, and a file without the doi column.
HdrNoDoi == << "pmid", "title", "abstract" >>

FileTwo == Csv(HdrFull, << Row("1", "d", TitleA), Row("2", "d", TitleA) >>)

FileNoDoi == Csv(HdrNoDoi, << [c \in Range(HdrNoDoi) |->
                                 CASE c = "pmid" -> "1"
                                   [] c = "title" -> TitleB
                                   [] OTHER -> ""] >>)

FrameFiles == {FileTwo, FileNoDoi}

NextFrame ==
  \/ \E r \in Runs : \E in \in FrameFiles : Start(r, in)
  \/ \E r \in Runs : Step(r)

SpecFrame == Init /\ [][NextFrame]_vars

\* One run on a file with boolean columns.
NextBool == (\E in \in BoolFiles : Start(1, in)) \/ Step(1)

SpecBool == Init /\ [][NextBool]_vars

NextRead ==
  \/ \E in \in Files : Start(1, in)
  \/ Step(1)
  \/ Query

SpecRead == Init /\ [][NextRead]_vars

\* ============================================================ properties
Restrict(row, S) == [c \in S |-> row[c]]

\* new holds the rows of old, in the same number, with the same value in
\* every column of old.
SameRows(old, new) ==
  /\ NameSet(old.cols) \subseteq NameSet(new.cols)
  /\ Len(new.rows) = Len(old.rows)
  /\ \A i \in 1..Len(old.rows) : Restrict(new.rows[i], NameSet(old.cols)) = old.rows[i]

\* Run r has just ended, having had the database to itself.
AtEnd(r) == last = r /\ alone[r] /\ \A q \in Runs \ {r} : ~Active(q)

Pmids(rows) == {rows[i]["pmid"] : i \in 1..Len(rows)}

RowsOf(rows, p) == {i \in 1..Len(rows) : rows[i]["pmid"] = p}

\* C1: when the merge step of a run fails, whatever the reason, the step
\* leaves records as it was, and a run that had the database to itself
\* leaves every row that records held when the run started, and no other
\* row, with the same value in every column the table had then.
C1_MergeFailureAtomic ==
  [][\A r \in Runs :
       (pc[r] = "merge" /\ pc'[r] = "raised")
         => /\ records' = records
            /\ alone[r] => SameRows(snap[r], records')]_vars

\* C1 witness: a merge that failed on a batch with a repeated pmid, over a
\* table that already held rows.
C1_Witness ==
  \E r \in Runs :
    /\ AtEnd(r) /\ pc[r] = "raised" /\ at[r] = "merge" /\ ~fault[r]
    /\ Len(records_stage.rows) = 2
    /\ Len(snap[r].rows) > 0

\* C2: a run that repeats the input of the run that ended just before it,
\* both having had the database to themselves and kept their connection,
\* ends with records exactly as it was when the run started, that is as the
\* first of the two runs left it.
C2_Idempotent ==
  [][\A r \in Runs :
       (pc[r] \notin Ended /\ pc'[r] \in Ended /\ repeat'[r] /\ alone'[r] /\ ~fault'[r])
         => records' = snap'[r]]_vars

\* C2 witness: the second of two successful runs on the same file, over the
\* rows the first one merged.
C2_Witness ==
  \E r \in Runs :
    /\ AtEnd(r) /\ pc[r] = "done" /\ repeat[r]
    /\ Len(records.rows) > 0
    /\ records = snap[r]

\* C3: a successful merge leaves, for every staged row, exactly one row of
\* records with its pmid, and that row has the staged value (NULL included)
\* in every column of the plan; records grows by exactly the staged pmids
\* it did not hold.
C3_KeyedFullReplace ==
  [][\A r \in Runs :
       (pc[r] = "merge" /\ pc'[r] = "done")
         => /\ \A s \in Range(records_stage.rows) :
                 /\ Cardinality(RowsOf(records'.rows, s["pmid"])) = 1
                 /\ \A i \in RowsOf(records'.rows, s["pmid"]) :
                      \A c \in Range(cols[r]) : records'.rows[i][c] = s[c]
            /\ Len(records'.rows) = Len(records.rows)
                 + Cardinality(Pmids(records_stage.rows) \ Pmids(records.rows))]_vars

\* C3 witness: pmid 1 was held with title A and a doi; the run staged it with
\* title B and no doi, and records now holds one row of pmid 1, with title B
\* and a NULL doi.
C3_Witness ==
  \E r \in Runs :
    /\ AtEnd(r) /\ pc[r] = "done"
    /\ \E i \in 1..Len(snap[r].rows) :
         /\ snap[r].rows[i]["pmid"] = "1"
         /\ snap[r].rows[i]["title"] = TitleA
         /\ snap[r].rows[i]["doi"] = "d"
    /\ Cardinality(RowsOf(records.rows, "1")) = 1
    /\ \A i \in RowsOf(records.rows, "1") :
         records.rows[i]["title"] = TitleB /\ records.rows[i]["doi"] = Null

\* C4: at most one run at a time is between recreating the staging table and
\* the end of its merge.
C4_Serialized ==
  Cardinality({r \in Runs : pc[r] \in {"copy", "merge"}}) <= 1

\* C10: every row of records has a pmid, and no two rows have the same one.
C10_IdentityUnique ==
  \A i \in 1..Len(records.rows) :
    /\ "pmid" \in DOMAIN records.rows[i]
    /\ records.rows[i]["pmid"] # Null
    /\ \A j \in 1..Len(records.rows) :
         records.rows[i]["pmid"] = records.rows[j]["pmid"] => i = j

\* C10 witness: records holds two rows after a run whose batch repeated a
\* pmid has failed.
C10_Witness ==
  /\ Len(records.rows) = 2
  /\ \E r \in Runs : pc[r] = "raised" /\ at[r] = "merge" /\ ~fault[r]
                     /\ input[r] = FileDup

\* C5: the four statements of one fts_search request all read the same rows
\* of records: the rows before the ingest run, or the rows after it.
C5_ReadSeesOneState ==
  Len(seen) = NumQueries
    => \A i, j \in 1..NumQueries : seen[i].rows = seen[j].rows

\* C6: when a run that had the database to itself aborts while the staging
\* table is recreated or loaded, records is exactly as it was when the run
\* started: same rows, same values, same columns.
C6_LoadFailureLeavesTable ==
  \A r \in Runs :
    (AtEnd(r) /\ pc[r] = "raised" /\ at[r] \in {"stage", "copy"})
      => records = snap[r]

\* The conditions C7 calls configuration errors, as run r met them.
ConfigError(r) ==
  \/ ~Exists(snap[r])
  \/ "pmid" \notin Range(input[r].hdr)
  \/ "pmid" \notin NameSet(snap[r].cols)

\* C7: a run that meets a missing table, an input without pmid or a table
\* without pmid ends without having executed any write.
C7_FailFast ==
  \A r \in Runs :
    (pc[r] \in Ended /\ ConfigError(r)) => writes[r] = 0

\* C8: after a successful run that had the database to itself, every row of
\* records with a staged pmid has the search vector of its title and
\* abstract.
C8_SearchVector ==
  \A r \in Runs :
    (AtEnd(r) /\ pc[r] = "done")
      => \A i \in 1..Len(records.rows) :
           records.rows[i]["pmid"] \in Pmids(records_stage.rows)
             => /\ "fts" \in DOMAIN records.rows[i]
                /\ records.rows[i]["fts"]
                     = to_tsvector(records.rows[i]["title"], records.rows[i]["abstract"])

\* Run r has read a file with a pmid column and derived its columns.
Started(r) == pc[r] \in Steps \/ (pc[r] \in Ended /\ at[r] # "start")

IsNumber(cell) == cell \in PmidTokens \cup {"1.0"}

Canon(cell) == IF cell = "1.0" THEN "1" ELSE cell

NoNumber(in) == {i \in 1..Len(in.rows) : ~IsNumber(in.rows[i]["pmid"])}

NullBoth(in) ==
  {i \in 1..Len(in.rows) :
     /\ in.rows[i]["pmid"] \in NaTokens
     /\ "doi" \in Range(in.hdr) => in.rows[i]["doi"] \in NaTokens}

\* C9 as stated: the dropped count of a run is the number of input rows in
\* which pmid and doi are both missing.
C9_DropsNullBoth ==
  \A r \in Runs : Started(r) => dropped[r] = Cardinality(NullBoth(input[r]))

\* C9: a row is dropped exactly when its pmid cell is missing or spells no
\* number, whatever its doi; dropped counts these rows, kept + dropped =
\* read, every staged row has a pmid, and the pmids a successful run commits
\* are those of the kept rows.
C9_DropsByPmid ==
  \A r \in Runs :
    Started(r)
      => /\ before[r] = Len(input[r].rows)
         /\ dropped[r] = Cardinality(NoNumber(input[r]))
         /\ Len(df[r].rows) + dropped[r] = before[r]
         /\ Pmids(df[r].rows)
              = {Canon(input[r].rows[i]["pmid"]) :
                   i \in (1..Len(input[r].rows)) \ NoNumber(input[r])}
         /\ pc[r] = "merge"
              => /\ Len(records_stage.rows) = Len(df[r].rows)
                 /\ Pmids(records_stage.rows) = Pmids(df[r].rows)
         /\ pc[r] = "done" => Pmids(records.rows) = Pmids(df[r].rows)

\* C9 witness: a successful run that read two rows, dropped the one without
\* pmid although it had a doi, and committed the other.
C9_Witness ==
  /\ pc[1] = "done" /\ before[1] = 2 /\ dropped[1] = 1
  /\ Len(records.rows) = 1
  /\ \E i \in 1..Len(input[1].rows) :
       input[1].rows[i]["pmid"] = "" /\ input[1].rows[i]["doi"] = "d"

\* C11: when a run that had the database to itself has ended, by success
\* or by failure, the staging table does not exist or holds no rows.
C11_StagingEnds ==
  \A r \in Runs :
    (AtEnd(r) /\ pc[r] \in Ended)
      => ~Exists(records_stage) \/ records_stage.rows = << >>

BoolColumns(t) == {c \in NameSet(t.cols) : TypeOf(t.cols, c) = "boolean"}

\* C12: after a successful run, every boolean column of records that the
\* input has holds NULL in the row of an input row whose cell is empty.
C12_EmptyBooleanIsNull ==
  \A r \in Runs :
    (AtEnd(r) /\ pc[r] = "done")
      => \A i \in 1..Len(input[r].rows) :
           \A c \in Range(input[r].hdr) \cap BoolColumns(records) :
             input[r].rows[i][c] = ""
               => \A j \in RowsOf(records.rows, Canon(input[r].rows[i]["pmid"])) :
                    records.rows[j][c] = Null

Truthy == {"1", "true", "t", "y", "yes", "on"}

Falsy == {"0", "false", "f", "n", "no", "off"}

Lower(tok) ==
  CASE tok = "TRUE" -> "true"
    [] tok = "Yes" -> "yes"
    [] tok = "NO" -> "no"
    [] tok = "F" -> "f"
    [] tok = "Off" -> "off"
    [] OTHER -> tok

\* The boolean C13 gives a token.
TokenBool(tok) ==
  IF Lower(tok) \in Truthy \/ tok = "1.0" THEN "True"
  ELSE IF Lower(tok) \in Falsy \/ tok = "0.0" THEN "False"
  ELSE Null

\* C13: the value to_bool gives a cell of a boolean column is true when the
\* cell is, ignoring case, one of 1, true, t, y, yes, on (or 1.0), false
\* when it is one of 0, false, f, n, no, off (or 0.0), and null otherwise.
C13_ToBoolIgnoresCase ==
  \A r \in Runs :
    (/\ pc[r] \in {"stage", "copy", "merge", "done"}
     /\ dropped[r] = 0
     /\ "is_compliant" \in Range(input[r].hdr) \cap Range(cols[r])
     /\ "is_compliant" \in BoolColumns(records))
      => \A i \in 1..Len(df[r].rows) :
           df[r].rows[i]["is_compliant"] = TokenBool(input[r].rows[i]["is_compliant"])

\* Position of name c in the column list cs.
Pos(cs, c) == CHOOSE k \in 1..Len(cs) : cs[k].name = c

\* C14: the plan a run computes is exactly the columns that records and the
\* derived frame both have, each once, in the order records declares them;
\* the run ends with a configuration error exactly when pmid is not among
\* them (an empty plan included), and goes on otherwise, columns of the
\* frame that records lacks being left out; the staging table is created
\* with the columns of the plan.
C14_Plan ==
  [][\A r \in Runs :
       /\ (pc[r] = "introspect" /\ pc'[r] # pc[r]) =>
            LET both == NameSet(records.cols) \cap Range(df[r].cols)
            IN /\ pc'[r] \in {"stage", "exit"}
               /\ pc'[r] = "exit" <=> "pmid" \notin both
               /\ pc'[r] = "stage" =>
                    /\ Range(cols'[r]) = both
                    /\ Len(cols'[r]) = Cardinality(both)
                    /\ \A i, j \in 1..Len(cols'[r]) :
                         i < j => Pos(records.cols, cols'[r][i]) < Pos(records.cols, cols'[r][j])
       /\ (pc[r] = "stage" /\ pc'[r] = "copy") => Names(records_stage'.cols) = cols[r]]_vars

\* C14 witness: a successful run whose file has a column (note) that
\* records lacks, and whose plan lists the columns in an order other than
\* the frame's.
C14_Witness ==
  \E r \in Runs :
    /\ pc[r] = "done"
    /\ "note" \in Range(df[r].cols) /\ "note" \notin NameSet(records.cols)
    /\ cols[r] # plan_frame_order(Names(records.cols), df[r])
    /\ Len(records.rows) = 1

\* C15: after a successful run that had the database to itself, every row
\* records held when the run started is still there with the same pmid and,
\* in every column of records that the run's frame does not have, the value
\* it had, whether or not its pmid was in the batch.
C15_Frame ==
  \A r \in Runs :
    (AtEnd(r) /\ pc[r] = "done")
      => /\ Len(records.rows) >= Len(snap[r].rows)
         /\ \A i \in 1..Len(snap[r].rows) :
              /\ records.rows[i]["pmid"] = snap[r].rows[i]["pmid"]
              /\ \A c \in NameSet(snap[r].cols) \ Range(df[r].cols) :
                   records.rows[i][c] = snap[r].rows[i][c]

\* C15 witness: records held pmid 1 and pmid 2, each with a doi; a run on a
\* file without doi column rewrote the title of pmid 1, and both rows still
\* have their doi.
C15_Witness ==
  \E r \in Runs :
    /\ AtEnd(r) /\ pc[r] = "done" /\ input[r] = FileNoDoi
    /\ "doi" \notin Range(cols[r])
    /\ Len(snap[r].rows) = 2 /\ Len(records.rows) = 2
    /\ \A i \in 1..2 : snap[r].rows[i]["doi"] = "d" /\ records.rows[i]["doi"] = "d"
    /\ \E i \in RowsOf(records.rows, "1") :
         snap[r].rows[i]["title"] = TitleA /\ records.rows[i]["title"] = TitleB

====
